---- MODULE Spec2Model ----
(***************************************************************************)
(* The address-to-solar-insights form component (function App) in its      *)
(* three versions:                                                         *)
(*   "full"  : src/unnamed/part_000       (timeouts, detailed catch)       *)
(*   "basic" : src/src/App.tsx:1-185      (live APIs, plain catch)         *)
(*   "mock"  : src/src/App.tsx:186-314    (tile probe, placeholder data)   *)
(* An action is one synchronous run of JavaScript: from a user event or    *)
(* the settling of an awaited promise up to the next await (or the end of  *)
(* the handler).  React state holds the value of the last setter call.     *)
(*                                                                         *)
(* Values.  A JavaScript string built from a template is a sequence of     *)
(* parts (STRING), '' is <<>>.  A nullable value is a sequence of length   *)
(* at most one: <<>> is null / '' (falsy), <<v>> is the value v.           *)
(***************************************************************************)
EXTENDS Integers, Sequences, FiniteSets, TLC

\* ------------------------------------------------------------- bounds
MaxLen == 2            \* longest address typed into the text input
MaxSubmissions == 2    \* clicks on "Analyze Property" in one behaviour

\* ------------------------------------------------------------- inputs
Variants == {"full", "basic", "mock"}
LiveVariants == {"full", "basic"}

Chars == {" ", "a"}
WhiteSpace == {" ", "\t", "\n"}

RECURSIVE SeqsUpTo(_, _)
SeqsUpTo(S, n) ==
  IF n = 0 THEN {<<>>}
  ELSE LET shorter == SeqsUpTo(S, n - 1)
       IN  shorter \cup {Append(s, c) : s \in {t \in shorter : Len(t) = n - 1}, c \in S}

Addresses == SeqsUpTo(Chars, MaxLen)

\* String.prototype.trim: strips leading and trailing white space.
RECURSIVE trimStart(_)
trimStart(s) ==
  IF s = <<>> THEN <<>>
  ELSE IF Head(s) \in WhiteSpace THEN trimStart(Tail(s)) ELSE s

RECURSIVE trimEnd(_)
trimEnd(s) ==
  IF s = <<>> THEN <<>>
  ELSE IF s[Len(s)] \in WhiteSpace THEN trimEnd(SubSeq(s, 1, Len(s) - 1)) ELSE s

trim(s) == trimEnd(trimStart(s))

\* encodeURIComponent: unreserved characters are kept, the others escaped.
encodeChar(c) ==
  CASE c = " "  -> "%20"
    [] c = "\t" -> "%09"
    [] c = "\n" -> "%0A"
    [] OTHER    -> c

encodeURIComponent(s) == [i \in 1..Len(s) |-> encodeChar(s[i])]

\* --------------------------------------------------------- JS helpers
\* a || b on strings: '' and undefined (both <<>>) are falsy.
OrElse(a, b) == IF a = <<>> THEN b ELSE a

\* Thrown values.  response is <<>> or <<[status, statusText, data]>>;
\* data is [kind, message]: "errmsg" (an object with error.message),
\* "noerr" (an object or string without .error), "null" (a JSON null body).
MkError(m) ==
  [cls |-> "Error", msg |-> m, response |-> <<>>, request |-> FALSE, code |-> ""]

MkTypeError(m) ==
  [cls |-> "TypeError", msg |-> m, response |-> <<>>, request |-> FALSE, code |-> ""]

isAxiosError(e) == e.cls = "AxiosError"

\* error.response.data.error?.message ; undefined is <<>>.
dataErrorMessage(data) == IF data.kind = "errmsg" THEN data.message ELSE <<>>

NullDataTypeError == MkTypeError(<<"Cannot read properties of null (reading 'error')">>)

\* ------------------------------------------------------ network model
\* What the awaited promise of an axios call can settle to, besides a 2xx
\* response: an HTTP error response, no response at all, a timeout (only
\* where the call configures one), or a failure before the request exists.
ErrorResponses ==
  { [status |-> "403", statusText |-> <<"Forbidden">>,
     data |-> [kind |-> "errmsg", message |-> <<"API key not valid">>]],
    [status |-> "403", statusText |-> <<"Forbidden">>,
     data |-> [kind |-> "noerr", message |-> <<>>]],
    [status |-> "500", statusText |-> <<>>,
     data |-> [kind |-> "noerr", message |-> <<>>]],
    [status |-> "500", statusText |-> <<>>,
     data |-> [kind |-> "null", message |-> <<>>]] }

AxiosResponseError(r) ==
  [cls |-> "AxiosError", msg |-> <<"Request failed with status code ", r.status>>,
   response |-> <<r>>, request |-> TRUE, code |-> "ERR_BAD_RESPONSE"]

AxiosNetworkError ==
  [cls |-> "AxiosError", msg |-> <<"Network Error">>,
   response |-> <<>>, request |-> TRUE, code |-> "ERR_NETWORK"]

AxiosTimeoutError(ms) ==
  [cls |-> "AxiosError", msg |-> <<"timeout of ", ms, "ms exceeded">>,
   response |-> <<>>, request |-> TRUE, code |-> "ECONNABORTED"]

AxiosSetupError ==
  [cls |-> "AxiosError", msg |-> <<"Invalid URL">>,
   response |-> <<>>, request |-> FALSE, code |-> "ERR_INVALID_URL"]

\* The timeout option of the call: "10000"/"15000" in the full version, none (<<>>)
\* in the other versions, where axios never times a request out.
ProbeTimeout(v) == IF v = "full" THEN <<"10000">> ELSE <<>>
GeocodeTimeout(v) == IF v = "full" THEN <<"10000">> ELSE <<>>
SolarTimeout(v) == IF v = "full" THEN <<"15000">> ELSE <<>>

AxiosRejections(timeout) ==
  {AxiosResponseError(r) : r \in ErrorResponses}
    \cup {AxiosNetworkError, AxiosSetupError}
    \cup {AxiosTimeoutError(timeout[i]) : i \in 1..Len(timeout)}

\* How a settled call is recorded in the log.
RejectionKind(e) ==
  IF e.response /= <<>> THEN "response"
  ELSE IF e.code = "ECONNABORTED" THEN "timeout"
  ELSE IF e.request THEN "network"
  ELSE "setup"

\* Geocoding API bodies (HTTP 200): the status field and the results list.
Locations ==
  { [lat |-> 32, lng |-> -110, formatted_address |-> "4711 N Via Zurburan, Tucson, AZ"],
    [lat |-> 37, lng |-> -122, formatted_address |-> "1600 Amphitheatre Pkwy, CA"] }

GeocodeStatuses ==
  {"OK", "ZERO_RESULTS", "REQUEST_DENIED", "OVER_QUERY_LIMIT", "INVALID_REQUEST"}

GeocodeBodies ==
  {[status |-> s, results |-> <<>>] : s \in GeocodeStatuses}
    \cup {[status |-> "OK", results |-> <<l>>] : l \in Locations}

\* fetch(): resolves with any HTTP status (ok is status 200-299), rejects
\* with a TypeError when the network fails.
FetchResponses ==
  { [ok |-> TRUE,  status |-> "200", statusText |-> <<"OK">>,        text |-> <<>>],
    [ok |-> FALSE, status |-> "403", statusText |-> <<"Forbidden">>, text |-> <<"The provided API key is invalid.">>],
    [ok |-> FALSE, status |-> "404", statusText |-> <<>>,            text |-> <<>>] }

FetchFailed == MkTypeError(<<"Failed to fetch">>)

\* ------------------------------------------------------- catch blocks
NetworkErrorProbeMsg ==
  <<"Network error: Unable to reach Google APIs. Please check your internet connection and API key configuration.">>
TimeoutProbeMsg ==
  <<"Request timeout: Google APIs are taking too long to respond.">>
NetworkErrorMsg ==
  <<"Network Error: Unable to reach Google APIs. Please check your internet connection and ensure the APIs are enabled in your Google Cloud Console.">>

\* The catch block of verifyApiKeys in the full version: the value it throws.
verifyApiKeysCatchFull(e) ==
  IF isAxiosError(e) /\ e.response /= <<>> THEN
    LET r == e.response[1] IN
    IF r.data.kind = "null" THEN NullDataTypeError
    ELSE MkError(<<"API verification failed (", r.status, "): ">>
                   \o OrElse(dataErrorMessage(r.data), OrElse(r.statusText, e.msg)))
  ELSE IF isAxiosError(e) /\ e.request THEN MkError(NetworkErrorProbeMsg)
  ELSE IF e.code = "ECONNABORTED" THEN MkError(TimeoutProbeMsg)
  ELSE e

\* The catch block of verifyApiKeys in the basic version.
verifyApiKeysCatchBasic(e) ==
  IF isAxiosError(e) /\ e.response /= <<>> THEN
    LET r == e.response[1] IN
    IF r.data.kind = "null" THEN NullDataTypeError
    ELSE MkError(<<"API verification failed: ">>
                   \o OrElse(dataErrorMessage(r.data), e.msg))
  ELSE e

verifyApiKeysCatch(v, e) ==
  IF v = "full" THEN verifyApiKeysCatchFull(e) ELSE verifyApiKeysCatchBasic(e)

\* The catch block of handleAddressSubmit: either it sets error to message,
\* or evaluating it throws (escapes) and the handler ends there.
Caught(m) == [escapes |-> FALSE, message |-> m]
Escapes(e) == [escapes |-> TRUE, message |-> e.msg]

handleCatchFull(e) ==
  IF isAxiosError(e) THEN
    IF e.response /= <<>> THEN
      LET r == e.response[1] IN
      IF r.data.kind = "null" THEN Escapes(NullDataTypeError)
      ELSE Caught(<<"API Error (", r.status, "): ">>
                    \o OrElse(dataErrorMessage(r.data),
                              OrElse(r.statusText, <<"Server error">>)))
    ELSE IF e.request THEN Caught(NetworkErrorMsg)
    ELSE Caught(<<"Request Error: ">> \o e.msg)
  ELSE Caught(e.msg)

\* error instanceof Error ? error.message : 'An unknown error occurred';
\* every value thrown here is an Error.
handleCatchPlain(e) == Caught(e.msg)

handleCatch(v, e) ==
  IF v = "full" THEN handleCatchFull(e) ELSE handleCatchPlain(e)

\* --------------------------------------------------- solar derivation
\* JavaScript numbers in fixed point with one decimal: v is the value in
\* tenths.  t is "num", "nan" or "undef" (a field the payload lacks).
Num(tenths) == [t |-> "num", v |-> tenths]
NaN == [t |-> "nan", v |-> 0]
Undef == [t |-> "undef", v |-> 0]

\* a * b; NaN when an operand is undefined or NaN.  Panel count and panel
\* capacity are whole numbers, so the products keep one decimal.
Mul(a, b) ==
  IF a.t = "num" /\ b.t = "num" THEN Num((a.v * b.v) \div 10) ELSE NaN

\* Math.round: floor(x + 0.5); NaN for undefined and NaN.
MathRound(a) ==
  IF a.t = "num" THEN Num(10 * ((a.v + 5) \div 10)) ELSE NaN

\* Math.round(y * 0.12 * 20): y is in tenths and 0.12 is 12/100, so the
\* product is y.v * 12 * 20 / 1000; no y in tenths puts it on a half.
\* Mutant of potentialSavingsOf: one year of savings instead of twenty.
potentialSavingsOfOneYear(y) ==
  IF y.t = "num" THEN Num(10 * ((2 * y.v * 12 + 1000) \div 2000)) ELSE NaN

potentialSavingsOf(y) ==
  IF y.t = "num" THEN Num(10 * ((2 * y.v * 12 * 20 + 1000) \div 2000)) ELSE NaN

RECURSIVE SumTenths(_)
SumTenths(q) == IF q = <<>> THEN 0 ELSE Head(q) + SumTenths(Tail(q))

\* round(reduce((a, b) => a + b) / length * 365 * 24) on a non-empty list of
\* tenths: the exact quotient, which the floating-point result rounds to
\* for the list lengths used here.
annualSunshineOf(q) ==
  Num(10 * ((2 * SumTenths(q) * 365 * 24 + 10 * Len(q)) \div (20 * Len(q))))

\* Whether building the record throws a TypeError: solarPotential or
\* sunshineQuantiles missing, or reduce on an empty array.
deriveThrows(data) ==
  \/ data.solarPotential = <<>>
  \/ data.solarPotential[1].sunshineQuantiles = <<>>
  \/ data.solarPotential[1].sunshineQuantiles[1] = <<>>

deriveError(data) ==
  IF data.solarPotential = <<>>
    THEN MkTypeError(<<"Cannot read properties of undefined (reading 'maxArrayPanelsCount')">>)
  ELSE IF data.solarPotential[1].sunshineQuantiles = <<>>
    THEN MkTypeError(<<"Cannot read properties of undefined (reading 'reduce')">>)
  ELSE MkTypeError(<<"Reduce of empty array with no initial value">>)

\* Mutant of deriveSolarData: the record does not carry the formatted address.
deriveSolarDataNoAddress(data, formattedAddress) ==
  LET p == data.solarPotential[1] IN
  [ yearlyGeneration |-> Mul(Mul(p.maxArrayPanelsCount, p.panelCapacityWatts), p.yearlyEnergyDcKwh),
    potentialSavings |-> potentialSavingsOf(p.yearlyEnergyDcKwh),
    annualSunshine   |-> annualSunshineOf(p.sunshineQuantiles[1]),
    roofSpace        |-> MathRound(p.maxArrayAreaMeters2),
    numberOfPanels   |-> p.maxArrayPanelsCount,
    address          |-> "" ]

deriveSolarData(data, formattedAddress) ==
  LET p == data.solarPotential[1] IN
  [ yearlyGeneration |-> Mul(Mul(p.maxArrayPanelsCount, p.panelCapacityWatts), p.yearlyEnergyDcKwh),
    potentialSavings |-> potentialSavingsOf(p.yearlyEnergyDcKwh),
    annualSunshine   |-> annualSunshineOf(p.sunshineQuantiles[1]),
    roofSpace        |-> MathRound(p.maxArrayAreaMeters2),
    numberOfPanels   |-> p.maxArrayPanelsCount,
    address          |-> formattedAddress ]

\* buildingInsights:findClosest bodies (HTTP 200): well-formed ones, and
\* ones that lack solarPotential, a numeric field or the quantiles.
GoodPotential ==
  [ maxArrayPanelsCount |-> Num(240), panelCapacityWatts |-> Num(4000),
    yearlyEnergyDcKwh |-> Num(10000), sunshineQuantiles |-> << <<100, 200, 300, 400>> >>,
    maxArrayAreaMeters2 |-> Num(855) ]

PanelCounts == {Num(0), Num(240)}
PanelCapacities == {Num(4000), Num(3000)}
YearlyEnergies == {Num(0), Num(2), Num(10000), Num(12346)}
QuantileLists == {<<100, 200, 300, 400>>, <<15>>, <<48, 52, 57>>}
RoofAreas == {Num(0), Num(854), Num(855)}

\* solarPotential objects with every field present.
SolarPotentials ==
  { [ maxArrayPanelsCount |-> n, panelCapacityWatts |-> w, yearlyEnergyDcKwh |-> y,
      sunshineQuantiles |-> <<q>>, maxArrayAreaMeters2 |-> a ] :
      n \in PanelCounts, w \in PanelCapacities, y \in YearlyEnergies,
      q \in QuantileLists, a \in RoofAreas }

SolarBodies ==
  { [solarPotential |-> <<p>>] : p \in SolarPotentials }
  \cup
  { [solarPotential |-> <<>>],
    [solarPotential |-> <<[GoodPotential EXCEPT !.panelCapacityWatts = Undef]>>],
    [solarPotential |-> <<[GoodPotential EXCEPT !.sunshineQuantiles = <<>>]>>],
    [solarPotential |-> <<[GoodPotential EXCEPT !.sunshineQuantiles = << <<>> >>]>>] }

\* The placeholder record of the mock version.
mockSolarData ==
  [ yearlyGeneration |-> "12000", potentialSavings |-> "25000",
    annualSunshine |-> "2800", roofSpace |-> "85", numberOfPanels |-> "24" ]

\* The satellite tile URL: centred on the coordinate (live versions) or on
\* the escaped address (mock version).
staticMapUrl(center) ==
  [center |-> center, zoom |-> "18", size |-> "600x400", maptype |-> "satellite"]

\* -------------------------------------------------------------- state
VARIABLES
  variant,     \* which version of the component runs (fixed)
  address,     \* useState: the text input
  mapUrl,      \* useState: <<>> is '', <<u>> a tile URL
  solarData,   \* useState: <<>> is null, <<d>> a record
  loading,     \* useState
  error,       \* useState: <<>> is null, <<m>> a message
  pc,          \* where handleAddressSubmit is suspended: "idle" (not
               \* running), the awaited call, or "escaped" (ended by an
               \* exception thrown out of its catch block)
  addr,        \* the address the running handler closed over
  loc,         \* results[0] of the geocoding response, <<>> before it
  probe,       \* mock: the probe response whose text() is awaited
  log,         \* what the current (or last) submission did, in order
  runs         \* submissions started

vars == <<variant, address, mapUrl, solarData, loading, error, pc, addr, loc, probe, log, runs>>

Call(name)       == <<"call", name>>
Reply(kind)      == <<"reply", kind>>
Set(field, what) == <<"set", field, what>>
Throw(kind)      == <<"throw", kind>>
\* The body of the solar response, logged after its reply.
Data(body)       == <<"data", body>>
\* A rejected axios call: its kind and, for an HTTP error response, the
\* upstream status and error message.
Rejected(e) ==
  <<"reply", RejectionKind(e)>>
    \o (IF e.response /= <<>>
          THEN <<e.response[1].status>> \o dataErrorMessage(e.response[1].data)
          ELSE <<>>)

Init ==
  /\ variant \in Variants
  /\ address \in Addresses
  /\ mapUrl = <<>>
  /\ solarData = <<>>
  /\ loading = FALSE
  /\ error = <<>>
  /\ pc = "idle"
  /\ addr = <<>>
  /\ loc = <<>>
  /\ probe = <<>>
  /\ log = <<>>
  /\ runs = 0

\* onChange of the text input.
SetAddress ==
  /\ \E a \in Addresses : a /= address /\ address' = a
  /\ UNCHANGED <<variant, mapUrl, solarData, loading, error, pc, addr, loc, probe, log, runs>>

\* The Button is rendered with loading={loading}: it takes no click while
\* loading is true.
ButtonEnabled == ~loading

\* Mutant of FailFrom: the catch block ends the submission without setError.
FailFromSwallows(done, e, err, load) ==
  /\ pc' = "idle"
  /\ error' = err
  /\ loading' = FALSE
  /\ log' = done \o <<Set("loading", "false")>>

\* The handler leaves its try block with the thrown value e after the
\* events done, error and loading being err and load: the catch block
\* runs, then setLoading(false), unless the catch block itself throws.
FailFrom(done, e, err, load) ==
  LET c == handleCatch(variant, e) IN
  IF c.escapes
    THEN /\ pc' = "escaped"
         /\ error' = err
         /\ loading' = load
         /\ log' = done \o <<Throw("escaped")>>
    ELSE /\ pc' = "idle"
         /\ error' = <<c.message>>
         /\ loading' = FALSE
         /\ log' = done \o <<Set("error", "value"), Set("loading", "false")>>

Fail(done, e) == FailFrom(done, e, error, loading)

\* ------------------------------------------- live versions: the steps
ValidationError == MkError(<<"Please enter a valid address">>)

\* if (!address.trim())
addressIsBlank(a) == trim(a) = <<>>

ResetEvents ==
  <<Set("loading", "true"), Set("error", "clear"), Set("solarData", "clear"), Set("mapUrl", "clear")>>

\* Mutant of SubmitLive: setSolarData(null) and setMapUrl('') are missing.
SubmitLiveNoReset ==
  /\ variant \in LiveVariants
  /\ pc = "idle"
  /\ ButtonEnabled
  /\ runs < MaxSubmissions
  /\ runs' = runs + 1
  /\ addr' = address
  /\ loc' = <<>>
  /\ IF addressIsBlank(address)
       THEN FailFrom(<<Set("loading", "true"), Set("error", "clear")>>, ValidationError, <<>>, TRUE)
       ELSE /\ pc' = "probeMaps"
            /\ loading' = TRUE
            /\ error' = <<>>
            /\ log' = <<Set("loading", "true"), Set("error", "clear"), Call("probeMaps")>>
  /\ UNCHANGED <<variant, address, probe, solarData, mapUrl>>

\* Mutant of SubmitLive: setLoading(true) is missing.
SubmitLiveNoLoading ==
  /\ variant \in LiveVariants
  /\ pc = "idle"
  /\ ButtonEnabled
  /\ runs < MaxSubmissions
  /\ runs' = runs + 1
  /\ addr' = address
  /\ solarData' = <<>>
  /\ mapUrl' = <<>>
  /\ loc' = <<>>
  /\ IF addressIsBlank(address)
       THEN FailFrom(Tail(ResetEvents), ValidationError, <<>>, loading)
       ELSE /\ pc' = "probeMaps"
            /\ loading' = loading
            /\ error' = <<>>
            /\ log' = Tail(ResetEvents) \o <<Call("probeMaps")>>
  /\ UNCHANGED <<variant, address, probe>>

\* Click on the button: the handler runs up to its first await, the maps
\* probe of verifyApiKeys, or fails validation and ends.
SubmitLive ==
  /\ variant \in LiveVariants
  /\ pc = "idle"
  /\ ButtonEnabled
  /\ runs < MaxSubmissions
  /\ runs' = runs + 1
  /\ addr' = address
  /\ solarData' = <<>>
  /\ mapUrl' = <<>>
  /\ loc' = <<>>
  /\ IF addressIsBlank(address)
       THEN FailFrom(ResetEvents, ValidationError, <<>>, TRUE)
       ELSE /\ pc' = "probeMaps"
            /\ loading' = TRUE
            /\ error' = <<>>
            /\ log' = ResetEvents \o <<Call("probeMaps")>>
  /\ UNCHANGED <<variant, address, probe>>

MapsKeyDenied == MkError(<<"Maps API key is invalid or missing required permissions">>)

\* Mutant of ProbeMapsResolves: the status of the probe is not looked at.
ProbeMapsResolvesNoCheck ==
  /\ pc = "probeMaps"
  /\ \E status \in GeocodeStatuses :
       /\ pc' = "probeSolar"
       /\ log' = log \o <<Reply(status), Call("probeSolar")>>
       /\ UNCHANGED <<error, loading>>
  /\ UNCHANGED <<variant, address, mapUrl, solarData, addr, loc, probe, runs>>

\* The geocode probe answers with HTTP 200.
ProbeMapsResolves ==
  /\ pc = "probeMaps"
  /\ \E status \in GeocodeStatuses :
       IF status = "REQUEST_DENIED"
         THEN Fail(log \o <<Reply(status)>>, verifyApiKeysCatch(variant, MapsKeyDenied))
         ELSE /\ pc' = "probeSolar"
              /\ log' = log \o <<Reply(status), Call("probeSolar")>>
              /\ UNCHANGED <<error, loading>>
  /\ UNCHANGED <<variant, address, mapUrl, solarData, addr, loc, probe, runs>>

ProbeMapsRejects ==
  /\ pc = "probeMaps"
  /\ \E e \in AxiosRejections(ProbeTimeout(variant)) :
       Fail(log \o <<Rejected(e)>>, verifyApiKeysCatch(variant, e))
  /\ UNCHANGED <<variant, address, mapUrl, solarData, addr, loc, probe, runs>>

\* The dataLayers probe answers with HTTP 2xx: verifyApiKeys returns true
\* and the geocoding request is issued.
ProbeSolarResolves ==
  /\ pc = "probeSolar"
  /\ pc' = "geocode"
  /\ log' = log \o <<Reply("2xx"), Call("geocode")>>
  /\ UNCHANGED <<variant, address, mapUrl, solarData, loading, error, addr, loc, probe, runs>>

ProbeSolarRejects ==
  /\ pc = "probeSolar"
  /\ \E e \in AxiosRejections(ProbeTimeout(variant)) :
       Fail(log \o <<Rejected(e)>>, verifyApiKeysCatch(variant, e))
  /\ UNCHANGED <<variant, address, mapUrl, solarData, addr, loc, probe, runs>>

NotFoundError == MkError(<<"Address not found. Please check the address and try again.">>)
\* Mutant of GeocodeError: the message leaves the provider status out.
GeocodeErrorNoStatus(status) == MkError(<<"Geocoding error">>)

GeocodeError(status) == MkError(<<"Geocoding error: ", status>>)
NoResultsTypeError == MkTypeError(<<"Cannot read properties of undefined (reading 'geometry')">>)

\* Mutant of geocodeCheck: ZERO_RESULTS is not told from other statuses.
geocodeCheckNoZeroResults(body) ==
  IF body.status /= "OK" THEN <<GeocodeError(body.status)>>
  ELSE IF body.results = <<>> THEN <<NoResultsTypeError>>
  ELSE <<>>

\* What the handler does with a geocoding body: <<>> to go on, <<e>> to throw.
geocodeCheck(body) ==
  IF body.status = "ZERO_RESULTS" THEN <<NotFoundError>>
  ELSE IF body.status /= "OK" THEN <<GeocodeError(body.status)>>
  ELSE IF body.results = <<>> THEN <<NoResultsTypeError>>
  ELSE <<>>

GeocodeResolves ==
  /\ pc = "geocode"
  /\ \E body \in GeocodeBodies :
       LET thrown == geocodeCheck(body) IN
       IF thrown /= <<>>
         THEN /\ Fail(log \o <<Reply(body.status)>>, thrown[1])
              /\ UNCHANGED loc
         ELSE /\ loc' = <<body.results[1]>>
              /\ pc' = "mapFetch"
              /\ log' = log \o <<Reply(body.status), Call("mapFetch")>>
              /\ UNCHANGED <<error, loading>>
  /\ UNCHANGED <<variant, address, mapUrl, solarData, addr, probe, runs>>

GeocodeRejects ==
  /\ pc = "geocode"
  /\ \E e \in AxiosRejections(GeocodeTimeout(variant)) :
       Fail(log \o <<Rejected(e)>>, e)
  /\ UNCHANGED <<variant, address, mapUrl, solarData, addr, loc, probe, runs>>

\* if (!mapResponse.ok) throw ...
MapImageError(v, r) ==
  IF v = "full"
    THEN MkError(<<"Failed to load map image: ", r.status, " ">> \o r.statusText)
    ELSE MkError(<<"Failed to load map image">>)

\* Mutant of mapCheck: the response's ok flag is not looked at.
mapCheckIgnoresOk(v, r) == <<>>

mapCheck(v, r) == IF ~r.ok THEN <<MapImageError(v, r)>> ELSE <<>>

\* Mutant of MapFetchResolves: setMapUrl runs before the ok flag is tested.
MapFetchResolvesSetsFirst ==
  /\ variant \in LiveVariants
  /\ pc = "mapFetch"
  /\ mapUrl' = <<staticMapUrl(<<loc[1].lat, loc[1].lng>>)>>
  /\ \E r \in FetchResponses :
       LET thrown == mapCheck(variant, r) IN
       IF thrown /= <<>>
         THEN Fail(log \o <<Reply(r.status), Set("mapUrl", "value")>>, thrown[1])
         ELSE /\ pc' = "solar"
              /\ log' = log \o <<Reply(r.status), Set("mapUrl", "value"), Call("solar")>>
              /\ UNCHANGED <<error, loading>>
  /\ UNCHANGED <<variant, address, solarData, addr, loc, probe, runs>>

MapFetchResolves ==
  /\ variant \in LiveVariants
  /\ pc = "mapFetch"
  /\ \E r \in FetchResponses :
       LET thrown == mapCheck(variant, r) IN
       IF thrown /= <<>>
         THEN /\ Fail(log \o <<Reply(r.status)>>, thrown[1])
              /\ UNCHANGED mapUrl
         ELSE /\ mapUrl' = <<staticMapUrl(<<loc[1].lat, loc[1].lng>>)>>
              /\ pc' = "solar"
              /\ log' = log \o <<Reply(r.status), Set("mapUrl", "value"), Call("solar")>>
              /\ UNCHANGED <<error, loading>>
  /\ UNCHANGED <<variant, address, solarData, addr, loc, probe, runs>>

MapFetchRejects ==
  /\ variant \in LiveVariants
  /\ pc = "mapFetch"
  /\ Fail(log \o <<Reply("failed")>>, FetchFailed)
  /\ UNCHANGED <<variant, address, mapUrl, solarData, addr, loc, probe, runs>>

SolarResolves ==
  /\ pc = "solar"
  /\ \E body \in SolarBodies :
       IF deriveThrows(body)
         THEN /\ Fail(log \o <<Reply("2xx"), Data(body)>>, deriveError(body))
              /\ UNCHANGED solarData
         ELSE /\ solarData' = <<deriveSolarData(body, loc[1].formatted_address)>>
              /\ loading' = FALSE
              /\ pc' = "idle"
              /\ log' = log \o <<Reply("2xx"), Data(body),
                                 Set("solarData", "value"), Set("loading", "false")>>
              /\ UNCHANGED error
  /\ UNCHANGED <<variant, address, mapUrl, addr, loc, probe, runs>>

SolarRejects ==
  /\ pc = "solar"
  /\ \E e \in AxiosRejections(SolarTimeout(variant)) :
       Fail(log \o <<Rejected(e)>>, e)
  /\ UNCHANGED <<variant, address, mapUrl, solarData, addr, loc, probe, runs>>

LiveSteps ==
  \/ SubmitLive
  \/ ProbeMapsResolves \/ ProbeMapsRejects
  \/ ProbeSolarResolves \/ ProbeSolarRejects
  \/ GeocodeResolves \/ GeocodeRejects
  \/ MapFetchResolves \/ MapFetchRejects
  \/ SolarResolves \/ SolarRejects

\* ---------------------------------------------- mock version: the steps
InvalidKeyError == MkError(<<"Invalid API key or API access is restricted">>)

\* The catch block of verifyApiKey: whatever was thrown, it returns false.
verifyApiKeyCatch(e) == FALSE

\* Click on the button: error is cleared, mapUrl and solarData are left as
\* they are; the handler runs up to the tile probe of verifyApiKey.
SubmitMock ==
  /\ variant = "mock"
  /\ pc = "idle"
  /\ ButtonEnabled
  /\ runs < MaxSubmissions
  /\ runs' = runs + 1
  /\ addr' = address
  /\ loading' = TRUE
  /\ error' = <<>>
  /\ pc' = "probeTile"
  /\ log' = <<Set("loading", "true"), Set("error", "clear"), Call("probeTile")>>
  /\ probe' = <<>>
  /\ UNCHANGED <<variant, address, mapUrl, solarData, loc>>

\* verifyApiKey returned valid: if (!isApiKeyValid) throw ...
AfterVerifyApiKey(done, valid) ==
  IF ~valid
    THEN Fail(done, InvalidKeyError)
    ELSE /\ pc' = "mapFetch"
         /\ log' = done \o <<Call("mapFetch")>>
         /\ UNCHANGED <<error, loading>>

ProbeTileResolves ==
  /\ pc = "probeTile"
  /\ \E r \in FetchResponses :
       IF ~r.ok
         THEN /\ probe' = <<r>>
              /\ pc' = "probeText"
              /\ log' = log \o <<Reply(r.status), Call("probeText")>>
              /\ UNCHANGED <<error, loading>>
         ELSE /\ AfterVerifyApiKey(log \o <<Reply(r.status)>>, TRUE)
              /\ UNCHANGED probe
  /\ UNCHANGED <<variant, address, mapUrl, solarData, addr, loc, runs>>

ProbeTileRejects ==
  /\ pc = "probeTile"
  /\ AfterVerifyApiKey(log \o <<Reply("failed")>>, verifyApiKeyCatch(FetchFailed))
  /\ UNCHANGED <<variant, address, mapUrl, solarData, addr, loc, probe, runs>>

\* response.text() resolves: throw new Error(`API Error: ${text}`), caught
\* in verifyApiKey itself.
ProbeTextResolves ==
  /\ pc = "probeText"
  /\ AfterVerifyApiKey(log \o <<Reply("text")>>,
                       verifyApiKeyCatch(MkError(<<"API Error: ">> \o probe[1].text)))
  /\ UNCHANGED <<variant, address, mapUrl, solarData, addr, loc, probe, runs>>

\* Mutant of MockMapFetchResolves: after the tile, the solar API is called.
MockMapFetchResolvesCallsSolar ==
  /\ variant = "mock"
  /\ pc = "mapFetch"
  /\ \E r \in FetchResponses :
       LET thrown == mapCheck(variant, r) IN
       IF thrown /= <<>>
         THEN /\ Fail(log \o <<Reply(r.status)>>, thrown[1])
              /\ UNCHANGED <<mapUrl, solarData>>
         ELSE /\ mapUrl' = <<staticMapUrl(encodeURIComponent(addr))>>
              /\ pc' = "solar"
              /\ log' = log \o <<Reply(r.status), Set("mapUrl", "value"), Call("solar")>>
              /\ UNCHANGED <<error, loading, solarData>>
  /\ UNCHANGED <<variant, address, addr, loc, probe, runs>>

MockMapFetchResolves ==
  /\ variant = "mock"
  /\ pc = "mapFetch"
  /\ \E r \in FetchResponses :
       LET thrown == mapCheck(variant, r) IN
       IF thrown /= <<>>
         THEN /\ Fail(log \o <<Reply(r.status)>>, thrown[1])
              /\ UNCHANGED <<mapUrl, solarData>>
         ELSE /\ mapUrl' = <<staticMapUrl(encodeURIComponent(addr))>>
              /\ solarData' = <<mockSolarData>>
              /\ loading' = FALSE
              /\ pc' = "idle"
              /\ log' = log \o <<Reply(r.status), Set("mapUrl", "value"),
                                 Set("solarData", "value"), Set("loading", "false")>>
              /\ UNCHANGED error
  /\ UNCHANGED <<variant, address, addr, loc, probe, runs>>

MockMapFetchRejects ==
  /\ variant = "mock"
  /\ pc = "mapFetch"
  /\ Fail(log \o <<Reply("failed")>>, FetchFailed)
  /\ UNCHANGED <<variant, address, mapUrl, solarData, addr, loc, probe, runs>>

MockSteps ==
  \/ SubmitMock
  \/ ProbeTileResolves \/ ProbeTileRejects \/ ProbeTextResolves
  \/ MockMapFetchResolves \/ MockMapFetchRejects

\* ----------------------------------------------------- specifications
Next == SetAddress \/ LiveSteps \/ MockSteps
NextLive == SetAddress \/ LiveSteps

InitLive == Init /\ variant \in LiveVariants
InitFull == Init /\ variant = "full"

\* All three versions.
Spec == Init /\ [][Next]_vars
\* The two versions that call the live APIs.
SpecLive == InitLive /\ [][NextLive]_vars
\* The full version alone.
SpecFull == InitFull /\ [][NextLive]_vars
\* The mock version alone.
NextMock == SetAddress \/ MockSteps
InitMock == Init /\ variant = "mock"
SpecMock == InitMock /\ [][NextMock]_vars

\* ------------------------------------------------- reading the log
IsCall(ev) == ev[1] = "call"
CallsOf(l) == SelectSeq(l, IsCall)
Issued(name) == \E i \in 1..Len(log) : log[i] = Call(name)
\* The event that settled the call name: the one logged right after it.
Settled(name) == \E i \in 1..(Len(log) - 1) : log[i] = Call(name)
ReplyTo(name) == log[(CHOOSE i \in 1..(Len(log) - 1) : log[i] = Call(name)) + 1]
WasDone(ev) == \E i \in 1..Len(log) : log[i] = ev

\* A submission ran and the handler returned: loading is back to false.
Finished == runs > 0 /\ pc = "idle"
OnlyWhiteSpace(s) == \A i \in 1..Len(s) : s[i] \in WhiteSpace
HasPart(message, part) == \E i \in 1..Len(message) : message[i] = part

\* ------------------------------------------------------------ claims

\* C1: once a submission was started with an address that is empty or only
\* white space, in every version of the component, the handler has ended
\* with error 'Please enter a valid address' and has issued no network call.
C1_BlankAddressRejected ==
  (runs > 0 /\ OnlyWhiteSpace(addr)) =>
    /\ pc = "idle"
    /\ ~loading
    /\ error = << <<"Please enter a valid address">> >>
    /\ CallsOf(log) = <<>>

\* C2: when a submission has finished, exactly one of solarData and error
\* is populated.
C2_ExactlyOneOutcome ==
  Finished =>
    /\ ~loading
    /\ (solarData /= <<>>) /= (error /= <<>>)
    /\ error /= <<>> => error[1] /= <<>>

\* C2 witness: a second submission has finished, failed at its solar step.
C2_Witness ==
  Finished /\ runs = 2 /\ error /= <<>> /\ solarData = <<>> /\ Issued("solar")

\* C3 as stated: in every state solarData is non-null only if error is null
\* and mapUrl is non-empty only if error is null.
C3_ResultsOnlyWithoutError ==
  /\ solarData /= <<>> => error = <<>>
  /\ mapUrl /= <<>> => error = <<>>

\* C3 amended: solarData is non-null only if error is null; mapUrl is
\* non-empty together with a non-null error only in a finished submission
\* whose tile fetch succeeded and whose solar step then failed.
C3_Amended ==
  /\ solarData /= <<>> => error = <<>>
  /\ (mapUrl /= <<>> /\ error /= <<>>) =>
       /\ Finished
       /\ WasDone(Set("mapUrl", "value"))
       /\ Settled("solar")
       /\ solarData = <<>>

\* C3 witness: the tile URL stays set beside the error of the solar step.
C3_Witness ==
  Finished /\ mapUrl /= <<>> /\ error /= <<>> /\ Settled("solar")

\* C4: when the second (or a later) submission has issued its first network
\* call, loading is true and error, solarData and mapUrl are reset.
C4_NoLeak ==
  (runs >= 2 /\ Len(CallsOf(log)) = 1 /\ pc \notin {"idle", "escaped"}) =>
    /\ loading
    /\ error = <<>>
    /\ solarData = <<>>
    /\ mapUrl = <<>>

\* C5: no exception escapes handleAddressSubmit: the handler never ends
\* without having run setLoading(false).
C5_NoEscape == pc /= "escaped"

\* C6: when the geocoding response has status ZERO_RESULTS, the submission
\* has failed with the not-found error, no map fetch or solar request was
\* issued, and mapUrl and solarData are unset.
C6_ZeroResults ==
  (Settled("geocode") /\ ReplyTo("geocode") = Reply("ZERO_RESULTS")) =>
    /\ Finished
    /\ error = << <<"Address not found. Please check the address and try again.">> >>
    /\ ~Issued("mapFetch") /\ ~Issued("solar")
    /\ mapUrl = <<>> /\ solarData = <<>>

C6_Witness ==
  Settled("geocode") /\ ReplyTo("geocode") = Reply("ZERO_RESULTS")

\* C7: when the geocoding response has a status other than OK and
\* ZERO_RESULTS, the submission has failed with 'Geocoding error: ' followed
\* by exactly that status, and no map fetch or solar request was issued.
C7_GeocodeStatusCarried ==
  \A s \in GeocodeStatuses \ {"OK", "ZERO_RESULTS"} :
    (Settled("geocode") /\ ReplyTo("geocode") = Reply(s)) =>
      /\ Finished
      /\ error = << <<"Geocoding error: ", s>> >>
      /\ ~Issued("mapFetch") /\ ~Issued("solar")

C7_Witness ==
  Settled("geocode") /\ ReplyTo("geocode") = Reply("OVER_QUERY_LIMIT")

\* C8: when the tile fetch answers with a status that is not ok, the
\* submission has failed with a message starting 'Failed to load map image',
\* setMapUrl was not called with the URL and no solar request was issued.
C8_MapImageError ==
  \A r \in {x \in FetchResponses : ~x.ok} :
    (Settled("mapFetch") /\ ReplyTo("mapFetch") = Reply(r.status)) =>
      /\ Finished
      /\ error /= <<>>
      /\ error[1][1] \in {"Failed to load map image", "Failed to load map image: "}
      /\ ~WasDone(Set("mapUrl", "value"))
      /\ mapUrl = <<>>
      /\ ~Issued("solar")

C8_Witness ==
  Settled("mapFetch") /\ ReplyTo("mapFetch") = Reply("403")

AxiosCalls == {"probeMaps", "probeSolar", "geocode", "solar"}
UpstreamOf(ev) == {ev[i] : i \in 3..Len(ev)}
EmbedsOneOf(message, parts) == \E p \in parts : HasPart(message, p)

\* C9: a submission that ended because one of its axios calls (a credential
\* probe, the geocode or the solar request) timed out reports a message of
\* its own: not the message of a network-level failure.
C9_TimeoutDistinct ==
  \A name \in AxiosCalls :
    (Finished /\ Settled(name) /\ ReplyTo(name) = Reply("timeout")) =>
      /\ error /= <<>>
      /\ error[1] \notin {NetworkErrorProbeMsg, NetworkErrorMsg}

\* C10: when a credential probe got a non-success HTTP response, the
\* submission has failed with a message that embeds the upstream status or
\* message, and no geocode, map or solar call was issued.
C10_CredentialErrorEmbedsUpstream ==
  /\ \A name \in {"probeMaps", "probeSolar"} :
       (Settled(name) /\ ReplyTo(name)[2] = "response") =>
         /\ Finished
         /\ error /= <<>>
         /\ EmbedsOneOf(error[1], UpstreamOf(ReplyTo(name)))
         /\ ~Issued("geocode") /\ ~Issued("mapFetch") /\ ~Issued("solar")
  /\ (Finished /\ Settled("probeTile") /\ probe /= <<>>
        /\ ReplyTo("probeTile") = Reply(probe[1].status)) =>
         /\ error /= <<>>
         /\ EmbedsOneOf(error[1], {probe[1].status} \cup {probe[1].text[i] : i \in 1..Len(probe[1].text)})
         /\ ~Issued("mapFetch")

\* The call name was answered with one of the replies.
Succeeded(name, replies) == Settled(name) /\ ReplyTo(name) \in replies
HasData == \E i \in 1..Len(log) : log[i][1] = "data"
\* solarResponse.data of the submission, once the solar request resolved.
SolarResponseData == log[CHOOSE i \in 1..Len(log) : log[i][1] = "data"][2]
IsNumber(x) == x.t = "num"
NumericFields ==
  {"yearlyGeneration", "potentialSavings", "annualSunshine", "roofSpace", "numberOfPanels"}
PayloadFields ==
  {"maxArrayPanelsCount", "panelCapacityWatts", "yearlyEnergyDcKwh", "maxArrayAreaMeters2"}
\* A solar body with solarPotential, its four numeric fields (numbers >= 0)
\* and a non-empty list of quantiles.
WellFormed(body) ==
  /\ body.solarPotential /= <<>>
  /\ \A f \in PayloadFields :
       IsNumber(body.solarPotential[1][f]) /\ body.solarPotential[1][f].v >= 0
  /\ body.solarPotential[1].sunshineQuantiles /= <<>>
  /\ body.solarPotential[1].sunshineQuantiles[1] /= <<>>
\* The credential check, the geocoding, the tile fetch and the solar step of
\* a finished submission all succeeded.
AllStepsSucceeded ==
  /\ Finished
  /\ trim(addr) /= <<>>
  /\ Succeeded("probeMaps", {Reply(s) : s \in GeocodeStatuses \ {"REQUEST_DENIED"}})
  /\ Succeeded("probeSolar", {Reply("2xx")})
  /\ Succeeded("geocode", {Reply("OK")}) /\ loc /= <<>>
  /\ Succeeded("mapFetch", {Reply("200")})
  /\ Succeeded("solar", {Reply("2xx")})
  /\ HasData /\ WellFormed(SolarResponseData)

\* C11: a submission of a live version with a non-blank address whose
\* credential check, geocoding, tile fetch and solar step all succeeded
\* (the solar body being well formed) ends with solarData holding a record
\* whose address is the formatted_address of the first geocoding result and
\* whose five numeric fields are numbers >= 0, and with mapUrl holding the
\* tile URL of the geocoded coordinate.
C11_SuccessRecord ==
  AllStepsSucceeded =>
    /\ solarData /= <<>>
    /\ solarData[1].address = loc[1].formatted_address
    /\ \A f \in NumericFields : IsNumber(solarData[1][f]) /\ solarData[1][f].v >= 0
    /\ mapUrl = <<staticMapUrl(<<loc[1].lat, loc[1].lng>>)>>

C11_Witness ==
  /\ AllStepsSucceeded
  /\ solarData /= <<>>
  /\ solarData[1].potentialSavings = Num(24000)

\* The reference derivation, on values in tenths: n / d rounded to the
\* nearest integer (halves up), as a number.
RefRound(n, d) == Num(10 * ((2 * n + d) \div (2 * d)))
RECURSIVE RefSum(_)
RefSum(q) == IF Len(q) = 0 THEN 0 ELSE q[Len(q)] + RefSum(SubSeq(q, 1, Len(q) - 1))
RefAll(xs) == \A i \in 1..Len(xs) : IsNumber(xs[i])
\* yearlyEnergyDcKwh * 0.12 * 20 is yearlyEnergyDcKwh * 24 / 10.
RefSavings(p) ==
  IF RefAll(<<p.yearlyEnergyDcKwh>>) THEN RefRound(p.yearlyEnergyDcKwh.v * 24, 100) ELSE NaN
\* mean * 365 * 24 is sum * 8760 / length.
RefSunshine(p) ==
  RefRound(RefSum(p.sunshineQuantiles[1]) * 8760, 10 * Len(p.sunshineQuantiles[1]))
RefRoof(p) ==
  IF RefAll(<<p.maxArrayAreaMeters2>>) THEN RefRound(p.maxArrayAreaMeters2.v, 10) ELSE NaN
\* The product of a whole count, a whole capacity and the yearly energy.
RefGeneration(p) ==
  IF RefAll(<<p.maxArrayPanelsCount, p.panelCapacityWatts, p.yearlyEnergyDcKwh>>)
    THEN Num((p.maxArrayPanelsCount.v \div 10) * (p.panelCapacityWatts.v \div 10)
               * p.yearlyEnergyDcKwh.v)
    ELSE NaN
\* The submission set solarData from the body of its solar response.
Derived == HasData /\ WasDone(Set("solarData", "value")) /\ solarData /= <<>>

\* C12: the record a live version derives from a solar body equals the
\* reference derivation, for every body of the bounded set that yields a
\* record: potentialSavings = round(yearlyEnergyDcKwh * 0.12 * 20) (1000
\* gives 2400), annualSunshine = round(mean(sunshineQuantiles) * 365 * 24)
\* ([10, 20, 30, 40] gives 219000), roofSpace = round(maxArrayAreaMeters2),
\* numberOfPanels = maxArrayPanelsCount and yearlyGeneration =
\* maxArrayPanelsCount * panelCapacityWatts * yearlyEnergyDcKwh.
C12_DerivationMatchesReference ==
  Derived =>
    LET p == SolarResponseData.solarPotential[1]
        d == solarData[1]
    IN  /\ d.potentialSavings = RefSavings(p)
        /\ d.annualSunshine = RefSunshine(p)
        /\ d.roofSpace = RefRoof(p)
        /\ d.numberOfPanels = p.maxArrayPanelsCount
        /\ d.yearlyGeneration = RefGeneration(p)
        /\ (p.yearlyEnergyDcKwh = Num(10000)) => (d.potentialSavings = Num(24000))
        /\ (p.sunshineQuantiles[1] = <<100, 200, 300, 400>>)
             => (d.annualSunshine = Num(2190000))

C12_Witness ==
  /\ Derived
  /\ SolarResponseData.solarPotential[1].yearlyEnergyDcKwh = Num(12346)
  /\ SolarResponseData.solarPotential[1].sunshineQuantiles[1] = <<48, 52, 57>>
  /\ SolarResponseData.solarPotential[1].maxArrayAreaMeters2 = Num(855)
  /\ solarData[1].potentialSavings = Num(29630)
  /\ solarData[1].annualSunshine = Num(458440)
  /\ solarData[1].roofSpace = Num(860)

\* The network calls of a live submission, in the order of the pipeline.
Steps == <<"probeMaps", "probeSolar", "geocode", "mapFetch", "solar">>
RejectionKinds == {"response", "timeout", "network", "setup"}
\* The call name was settled by a failure: a rejection, or an answer the
\* handler throws on.
ReplyFailed(name) ==
  /\ Settled(name)
  /\ LET r == ReplyTo(name) IN
     CASE name = "probeMaps"  -> r[2] \in RejectionKinds \cup {"REQUEST_DENIED"}
       [] name = "probeSolar" -> r[2] \in RejectionKinds
       [] name = "geocode"    -> r[2] /= "OK" \/ loc = <<>>
       [] name = "mapFetch"   -> r[2] /= "200"
       [] name = "solar"      -> \/ r[2] \in RejectionKinds
                                 \/ HasData /\ deriveThrows(SolarResponseData)
IsErrorSet(ev) == ev = Set("error", "value")
ErrorSets == Len(SelectSeq(log, IsErrorSet))
ValidationFailed == runs > 0 /\ trim(addr) = <<>>

\* C13: when a step of a live submission fails (validation, a credential
\* probe, the geocoding, the tile fetch, the solar step), no call of a later
\* step is issued in that submission, and the submission ends with an error
\* reported that was set exactly once, as the last thing before loading is
\* set back to false.
C13_StopsAtFirstFailure ==
  /\ ErrorSets <= 1
  /\ ValidationFailed =>
       /\ \A k \in 1..Len(Steps) : ~Issued(Steps[k])
       /\ Finished /\ error = <<ValidationError.msg>> /\ ErrorSets = 1
  /\ \A k \in 1..Len(Steps) :
       ReplyFailed(Steps[k]) =>
         /\ \A j \in (k + 1)..Len(Steps) : ~Issued(Steps[j])
         /\ Finished /\ error /= <<>> /\ ErrorSets = 1
         /\ log[Len(log) - 1] = Set("error", "value")

\* C14: within one submission of the full version the calls are issued in
\* the order maps probe, solar probe, geocode, tile fetch, solar request,
\* each once and only for a non-blank address; a call is issued only after
\* the call before it was answered with success; only the last event of the
\* submission can be a call without its answer, so at most one call is
\* outstanding, and the handler is suspended on exactly that call.
C14_StrictlySequential ==
  LET calls == CallsOf(log) IN
  /\ Len(calls) <= Len(Steps)
  /\ \A i \in 1..Len(calls) : calls[i] = Call(Steps[i])
  /\ calls /= <<>> => trim(addr) /= <<>>
  /\ \A k \in 2..Len(Steps) :
       Issued(Steps[k]) => Settled(Steps[k - 1]) /\ ~ReplyFailed(Steps[k - 1])
  /\ \A i \in 1..(Len(log) - 1) : IsCall(log[i]) => log[i + 1][1] = "reply"
  /\ \A k \in 1..Len(Steps) :
       (pc = Steps[k]) <=> (log /= <<>> /\ log[Len(log)] = Call(Steps[k]))

C14_Witness ==
  /\ pc = "solar"
  /\ CallsOf(log) = [i \in 1..Len(Steps) |-> Call(Steps[i])]
  /\ runs = 2

\* A handler is suspended on an awaited call.
Running == pc \notin {"idle", "escaped"}

C16_MalformedPayloadFails ==
  /\ (Succeeded("solar", {Reply("2xx")}) /\ HasData /\ ~WellFormed(SolarResponseData)) =>
       /\ Finished
       /\ error /= <<>>
       /\ solarData = <<>>
  /\ solarData /= <<>> => \A f \in NumericFields : IsNumber(solarData[1][f])

\* C17: in every reachable state of the full version a non-empty mapUrl is
\* the tile URL of the coordinate geocoded in the current (or last)
\* submission, set after the tile fetch of that submission was answered
\* with success; while a submission has not had its tile fetch answered
\* with success, mapUrl is empty, whatever an earlier submission left.
C17_MapUrlFetchedThisSubmission ==
  /\ mapUrl /= <<>> =>
       /\ Succeeded("mapFetch", {Reply("200")})
       /\ WasDone(Set("mapUrl", "value"))
       /\ loc /= <<>>
       /\ mapUrl = <<staticMapUrl(<<loc[1].lat, loc[1].lng>>)>>
  /\ (runs > 0 /\ ~Succeeded("mapFetch", {Reply("200")})) => mapUrl = <<>>

C17_Witness ==
  /\ runs = 2
  /\ pc = "solar"
  /\ mapUrl /= <<>>

\* The calls the mock version may issue: the tile probe, the reading of
\* the probe's body, the tile fetch.
MockCalls == {Call("probeTile"), Call("probeText"), Call("mapFetch")}
\* The credential probe and the tile fetch of a finished mock submission
\* were both answered with success.
MockStepsSucceeded ==
  /\ Finished
  /\ Succeeded("probeTile", {Reply("200")})
  /\ Succeeded("mapFetch", {Reply("200")})

\* C18: the mock version never issues a geocode or solar request (nor any
\* call besides its tile probe and tile fetch); once the probe and the
\* tile fetch of a submission succeeded, no call follows the tile's answer
\* and solarData is the fixed record 12000 / 25000 / 2800 / 85 / 24,
\* whatever the address.
C18_MockPlaceholder ==
  /\ \A i \in 1..Len(log) : IsCall(log[i]) => log[i] \in MockCalls
  /\ MockStepsSucceeded =>
       /\ solarData = << [ yearlyGeneration |-> "12000", potentialSavings |-> "25000",
                           annualSunshine |-> "2800", roofSpace |-> "85",
                           numberOfPanels |-> "24" ] >>
       /\ CallsOf(log)[Len(CallsOf(log))] = Call("mapFetch")
       /\ WasDone(Set("solarData", "value"))

C18_Witness ==
  /\ MockStepsSucceeded
  /\ runs = 2
  /\ trim(addr) /= <<>>
  /\ solarData /= <<>>

====
